---- MODULE Spec2Model ----
(***************************************************************************)
(* Model of prerequisites/dataset_transformers/dataset_transformer_class.py *)
(* (class DatasetTransformer and the box utilities).                       *)
(*                                                                         *)
(* Python lists are sequences; instance indices and predicate/object ids   *)
(* keep their 0-based values, so element i of a list is seq[i + 1].        *)
(* A box is <<y_min, y_max, x_min, x_max>>; an instance is <<box, name>>.  *)
(***************************************************************************)
EXTENDS Integers, Sequences, FiniteSets, TLC

VARIABLES
    pc,           \* position in the pipeline under study
    raw,          \* output of create_relationship_json (list of raw images)
    annos,        \* the list of image annotations being transformed
    predicates,   \* predicate vocabulary (trailing '__background__')
    objects,      \* object vocabulary
    preddet,      \* contents of <dataset>_preddet.json
    run,          \* 1 or 2: which of two runs on the same raw input
    first,        \* what the first run wrote to <dataset>_predcls.json
    idx,          \* number of list elements the current loop has consumed
    prob_matrix,  \* compute_relationship_probabilities: the array
    connections,  \* compute_class_merging: class pair -> matrix or mapping
    key,          \* compute_class_merging: class pair of the last closure
    done,         \* class pairs whose matrix was replaced by its mapping
    mat,          \* the matrix _densify_mat returned for key
    old_mat,      \* _densify_mat: the copy of mat the loop compares with
    iters,        \* _densify_mat: number of times the loop body has run
    negatives,    \* save_negative_json: per image, the lists of negative ids
    r1_preds,     \* rule 1 predicates
    r2_preds,     \* rule 2 predicates
    dataset,      \* config.dataset
    exists,       \* transform(): the artifact files that are on disk
    bound,        \* transform(): its local names that are bound
    calls         \* transform(): the methods called so far, in order

vars == <<pc, raw, annos, predicates, objects, preddet, run, first, idx,
          prob_matrix, connections, key, done, mat, old_mat, iters,
          negatives, r1_preds, r2_preds, dataset, exists, bound, calls>>

pipeVars == <<raw, predicates, objects, preddet, run, first>>
probVars == <<idx, prob_matrix>>
mergeVars == <<connections, key, done, mat, old_mat, iters>>
negVars == <<negatives, r1_preds, r2_preds>>
flowVars == <<dataset, exists, bound, calls>>

Background == "__background__"

(***************************************************************************)
(* Generic helpers                                                         *)
(***************************************************************************)
Range(s) == {s[i] : i \in 1..Len(s)}

IndexOf(s, x) == CHOOSE i \in 1..Len(s) : s[i] = x

\* All sequences over S of length at most n.
SeqUpTo(S, n) == UNION {[1..k -> S] : k \in 0..n}

\* list(set(...)): the order in which a set is enumerated is any order.
Enumerations(S) ==
    {f \in [1..Cardinality(S) -> S] : \A i, j \in 1..Cardinality(S) : f[i] = f[j] => i = j}

\* The parts of the state that the pipeline under study does not use.
NoPipe == /\ raw = <<>> /\ predicates = <<>> /\ objects = <<>>
          /\ preddet = <<>> /\ run = 1 /\ first = <<>>
NoProb == idx = 0 /\ prob_matrix = <<>>
NoMerge == /\ connections = <<>> /\ key = <<>> /\ done = {} /\ mat = <<>>
           /\ old_mat = <<>> /\ iters = 0
NoNeg == negatives = <<>> /\ r1_preds = {} /\ r2_preds = {}
NoFlow == dataset = "VRD" /\ exists = {} /\ bound = {} /\ calls = <<>>

\* sorted() of a set of names: lexicographic order, given by the position of
\* each name in the lexicographically ordered universe of names.
SortedNames(S, universe) == SelectSeq(universe, LAMBDA x : x \in S)

(***************************************************************************)
(* _transform_annotations (the Annotation Normalizer)                      *)
(***************************************************************************)
\* key=lambda t: (t[0][2] + t[0][3]) : x_min + x_max of the instance's box
SortKey(t) == t[1][3] + t[1][4]

\* sorted(list, key=...) : Python's sort is stable, so instances with equal
\* keys keep the order in which the list enumerates them.
InsertByKey(s, x) ==
    LET k == Cardinality({i \in 1..Len(s) : SortKey(s[i]) <= SortKey(x)})
    IN  SubSeq(s, 1, k) \o <<x>> \o SubSeq(s, k + 1, Len(s))

RECURSIVE SortedByKey(_)
SortedByKey(s) ==
    IF s = <<>> THEN <<>>
    ELSE InsertByKey(SortedByKey(SubSeq(s, 1, Len(s) - 1)), s[Len(s)])

\* set(subject tuples).union(set(object tuples)) of one raw image
InstanceSet(rawimg) ==
    {<<rel.subject_box, rel.subject>> : rel \in Range(rawimg.relationships)}
        \cup {<<rel.object_box, rel.object>> : rel \in Range(rawimg.relationships)}

\* One image of _transform_annotations; enum is the order in which the
\* de-duplicated instance set is enumerated before it is sorted.
TransformAnno(rawimg, enum) ==
    LET objs == SortedByKey(enum)                 \* inv_objects: index -> tuple
        obj_dict(t) == IndexOf(objs, t) - 1       \* objects: tuple -> index
        rels == rawimg.relationships
    IN  [split_id |-> rawimg.split_id,
         objects |-> [names |-> [o \in 1..Len(objs) |-> objs[o][2]],
                      boxes |-> [o \in 1..Len(objs) |-> objs[o][1]]],
         relations |->
            [names |-> [r \in 1..Len(rels) |-> rels[r].predicate],
             subj_ids |-> [r \in 1..Len(rels) |->
                             obj_dict(<<rels[r].subject_box, rels[r].subject>>)],
             obj_ids |-> [r \in 1..Len(rels) |->
                             obj_dict(<<rels[r].object_box, rels[r].object>>)]]]

\* The enumeration orders of the instance sets of a list of raw images.
EnumChoices(rawannos) ==
    {e \in [1..Len(rawannos) -> UNION {Enumerations(InstanceSet(rawannos[a])) :
                                            a \in 1..Len(rawannos)}] :
        \A a \in 1..Len(rawannos) : e[a] \in Enumerations(InstanceSet(rawannos[a]))}

TransformAnnotations(rawannos, enums) ==
    [a \in 1..Len(rawannos) |-> TransformAnno(rawannos[a], enums[a])]

(***************************************************************************)
(* save_predicates_objects and update_labels (vocabularies and ids)        *)
(***************************************************************************)
\* Lexicographically ordered universes of the names the inputs are drawn from.
PredicateNames == <<"above", "near", "on", "over">>
ObjectNames == <<"car", "dog", "horse", "person", "road">>

PredicateVocabulary(as) ==
    Append(SortedNames({n \in UNION {Range(as[a].relations.names) : a \in 1..Len(as)} :
                            n # Background}, PredicateNames),
           Background)

ObjectVocabulary(as) ==
    SortedNames(UNION {Range(as[a].objects.names) : a \in 1..Len(as)}, ObjectNames)

UpdateLabelsAnno(anno, preds, objs) ==
    [split_id |-> anno.split_id,
     objects |-> [names |-> anno.objects.names,
                  boxes |-> anno.objects.boxes,
                  ids |-> [o \in 1..Len(anno.objects.names) |->
                              IndexOf(objs, anno.objects.names[o]) - 1]],
     relations |-> [names |-> anno.relations.names,
                    subj_ids |-> anno.relations.subj_ids,
                    obj_ids |-> anno.relations.obj_ids,
                    ids |-> [r \in 1..Len(anno.relations.names) |->
                                IndexOf(preds, anno.relations.names[r]) - 1]]]

UpdateLabels(as, preds, objs) ==
    [a \in 1..Len(as) |-> UpdateLabelsAnno(as[a], preds, objs)]

(***************************************************************************)
(* create_pred_cls_json (the Pair Completion Engine)                       *)
(***************************************************************************)
AllPairs(n) == [i \in 1..(n * n) |-> <<(i - 1) \div n, (i - 1) % n>>]

\* mutant: the comprehension without its "if s != o"
BasePairsWithSelf(n) == AllPairs(n)

\* {(s, o): [] for s in range(n) for o in range(n) if s != o}, in insertion order
BasePairs(n) == SelectSeq(AllPairs(n), LAMBDA p : p[1] # p[2])

\* Keys added by "if (subj_id, obj_id) not in pairs", in order of first use.
RECURSIVE PairKeys(_, _, _)
PairKeys(keys, relations, r) ==
    IF r > Len(relations.subj_ids) THEN keys
    ELSE LET pair == <<relations.subj_ids[r], relations.obj_ids[r]>>
         IN  PairKeys(IF pair \in Range(keys) THEN keys ELSE Append(keys, pair),
                      relations, r + 1)

\* pairs[(subj_id, obj_id)] after the loop over the relations: the (name, id)
\* of every relation on that pair, in annotation order.
PairRels(relations, pair) ==
    LET on == SelectSeq([r \in 1..Len(relations.subj_ids) |-> r],
                        LAMBDA r : <<relations.subj_ids[r], relations.obj_ids[r]>> = pair)
    IN  [k \in 1..Len(on) |-> <<relations.names[on[k]], relations.ids[on[k]]>>]

\* mutant: the background id taken as len(predicates)
RelsOrBackgroundOffByOne(rels, preds) ==
    IF rels # <<>> THEN rels ELSE << <<Background, Len(preds)>> >>

\* rels if any(rels) else [('__background__', len(predicates) - 1)]
\* (the elements of rels are non-empty tuples, so any(rels) is "rels is
\* not empty")
RelsOrBackground(rels, preds) ==
    IF rels # <<>> THEN rels ELSE << <<Background, Len(preds) - 1>> >>

\* The rows (subj_id, obj_id, name, pred_id) of the array built from pairs.
RECURSIVE PairRows(_, _, _)
PairRows(keys, relations, preds) ==
    IF keys = <<>> THEN <<>>
    ELSE LET rels == RelsOrBackground(PairRels(relations, Head(keys)), preds)
         IN  [k \in 1..Len(rels) |->
                 <<Head(keys)[1], Head(keys)[2], rels[k][1], rels[k][2]>>]
             \o PairRows(Tail(keys), relations, preds)

\* One image of create_pred_cls_json.  The rows pass through a numpy string
\* array; astype(int) of the decimal text of an int and astype(str) of a
\* str give the values back unchanged.
CreatePredClsAnno(anno, preds) ==
    LET keys == PairKeys(BasePairs(Len(anno.objects.ids)), anno.relations, 1)
        rows == PairRows(keys, anno.relations, preds)
    IN  IF rows # <<>>
        THEN [anno EXCEPT !.relations =
                 [subj_ids |-> [k \in 1..Len(rows) |-> rows[k][1]],
                  obj_ids |-> [k \in 1..Len(rows) |-> rows[k][2]],
                  names |-> [k \in 1..Len(rows) |-> rows[k][3]],
                  ids |-> [k \in 1..Len(rows) |-> rows[k][4]]]]
        ELSE anno

CreatePredCls(as, preds) == [a \in 1..Len(as) |-> CreatePredClsAnno(as[a], preds)]


(***************************************************************************)
(* Normalizer + Pair Completion, run twice on the same raw input           *)
(* (transform(), lines 62-78, for one image)                               *)
(***************************************************************************)
MaxRels == 2        \* raw relationship records per image

\* Instances of the raw images: the first two have equal x_min + x_max.
PredClsInstances ==
    { <<<<0, 1, 0, 2>>, "car">>, <<<<0, 1, 1, 1>>, "road">>, <<<<0, 1, 2, 3>>, "car">> }

RawRels(instances, prednames) ==
    {[subject |-> s[2], subject_box |-> s[1], predicate |-> p,
      object |-> o[2], object_box |-> o[1]] :
        s \in instances, p \in prednames, o \in instances}

RawImages(instances, prednames, splits, n) ==
    {[split_id |-> sp, relationships |-> rels] :
        sp \in splits, rels \in SeqUpTo(RawRels(instances, prednames), n)}

InitPredCls ==
    /\ raw \in {<<img>> : img \in RawImages(PredClsInstances, {"near", "on"}, {0}, MaxRels)}
    /\ pc = "raw"
    /\ run = 1
    /\ annos = <<>>
    /\ predicates = <<>>
    /\ objects = <<>>
    /\ preddet = <<>>
    /\ first = <<>>
    /\ NoProb /\ NoMerge /\ NoNeg /\ NoFlow

\* annos = self._transform_annotations(annos)
DoTransformAnnotations ==
    /\ pc = "raw"
    /\ \E enums \in EnumChoices(raw) : annos' = TransformAnnotations(raw, enums)
    /\ pc' = "transformed"
    /\ UNCHANGED <<pipeVars, probVars, mergeVars, negVars, flowVars>>

\* predicates, objects = self.save_predicates_objects(annos)
DoSavePredicatesObjects ==
    /\ pc = "transformed"
    /\ predicates' = PredicateVocabulary(annos)
    /\ objects' = ObjectVocabulary(annos)
    /\ pc' = "vocabulary"
    /\ UNCHANGED <<raw, annos, preddet, run, first, probVars, mergeVars, negVars, flowVars>>

\* annos = self.update_labels(annos, predicates, objects); json.dump to preddet
DoUpdateLabels ==
    /\ pc = "vocabulary"
    /\ annos' = UpdateLabels(annos, predicates, objects)
    /\ preddet' = annos'
    /\ pc' = "preddet"
    /\ UNCHANGED <<raw, predicates, objects, run, first, probVars, mergeVars, negVars, flowVars>>

\* annos = json.load(preddet); self.create_pred_cls_json(annos, predicates)
DoCreatePredClsJson ==
    /\ pc = "preddet"
    /\ annos' = CreatePredCls(preddet, predicates)
    /\ pc' = "predcls"
    /\ UNCHANGED <<pipeVars, probVars, mergeVars, negVars, flowVars>>

\* The same raw input is put through the pipeline a second time.
DoSecondRun ==
    /\ pc = "predcls"
    /\ run = 1
    /\ first' = annos
    /\ run' = 2
    /\ pc' = "raw"
    /\ annos' = <<>>
    /\ predicates' = <<>>
    /\ objects' = <<>>
    /\ preddet' = <<>>
    /\ UNCHANGED <<raw, probVars, mergeVars, negVars, flowVars>>

NextPredCls ==
    \/ DoTransformAnnotations
    \/ DoSavePredicatesObjects
    \/ DoUpdateLabels
    \/ DoCreatePredClsJson
    \/ DoSecondRun

SpecPredCls == InitPredCls /\ [][NextPredCls]_vars

\* ---- properties of pair completion ----
NumObjects(anno) == Len(anno.objects.names)

\* positions of the relation entries of a relation set on the pair (s, o)
EntriesOn(relations, s, o) ==
    {k \in 1..Len(relations.subj_ids) :
        relations.subj_ids[k] = s /\ relations.obj_ids[k] = o}

\* the j-th smallest element of a set of positions
Nth(S, j) == CHOOSE x \in S : Cardinality({y \in S : y < x}) = j - 1

\* C1: after create_pred_cls_json every ordered pair of distinct instance
\* indices has an entry; a pair without annotated relation has exactly one
\* entry, ('__background__', len(predicates) - 1); a pair with annotated
\* relations has exactly its annotated (name, id) entries, in annotation
\* order, and no background entry.
C1_PairsLabelled ==
    pc = "predcls" =>
        \A a \in 1..Len(annos) :
            \A s, o \in 0..(NumObjects(annos[a]) - 1) :
                s # o =>
                    LET out == annos[a].relations
                        inn == preddet[a].relations
                        outs == EntriesOn(out, s, o)
                        inns == EntriesOn(inn, s, o)
                    IN  /\ outs # {}
                        /\ inns = {} =>
                              /\ Cardinality(outs) = 1
                              /\ \A k \in outs : /\ out.names[k] = Background
                                                 /\ out.ids[k] = Len(predicates) - 1
                        /\ inns # {} =>
                              /\ Cardinality(outs) = Cardinality(inns)
                              /\ \A j \in 1..Cardinality(inns) :
                                    /\ out.names[Nth(outs, j)] = inn.names[Nth(inns, j)]
                                    /\ out.ids[Nth(outs, j)] = inn.ids[Nth(inns, j)]
                              /\ \A k \in outs : out.names[k] # Background

\* C1 witness: a completed image with a background pair and a pair that
\* carries two annotated predicates.
C1_Witness ==
    /\ pc = "predcls"
    /\ \E a \in 1..Len(annos) :
          \E s, o \in 0..(NumObjects(annos[a]) - 1) :
             /\ s # o
             /\ EntriesOn(preddet[a].relations, s, o) = {}
             /\ Cardinality(EntriesOn(preddet[a].relations, o, s)) = 2
             /\ \E k \in EntriesOn(annos[a].relations, s, o) :
                   annos[a].relations.names[k] = Background

\* C2 as stated: the relation count is n*(n-1), one entry per ordered pair
\* of distinct indices and none for a self-pair.
C2_CountIsNTimesNMinus1 ==
    pc = "predcls" =>
        \A a \in 1..Len(annos) :
            LET n == NumObjects(annos[a])
            IN  /\ Len(annos[a].relations.ids) = n * (n - 1)
                /\ \A s, o \in 0..(n - 1) :
                      Cardinality(EntriesOn(annos[a].relations, s, o)) =
                          IF s = o THEN 0 ELSE 1

\* C2 amended: every ordered pair of distinct indices has max(1, k)
\* entries, k its number of annotated entries; a self-pair keeps its
\* annotated entries; so the count is the number of annotated entries plus
\* the number of ordered pairs of distinct indices without annotation.
C2_CountAmended ==
    pc = "predcls" =>
        \A a \in 1..Len(annos) :
            LET n == NumObjects(annos[a])
                out == annos[a].relations
                inn == preddet[a].relations
                bare == {p \in (0..(n - 1)) \X (0..(n - 1)) :
                            p[1] # p[2] /\ EntriesOn(inn, p[1], p[2]) = {}}
            IN  /\ Len(out.ids) = Len(inn.ids) + Cardinality(bare)
                /\ Len(out.subj_ids) = Len(out.ids)
                /\ Len(out.obj_ids) = Len(out.ids)
                /\ Len(out.names) = Len(out.ids)
                /\ \A s, o \in 0..(n - 1) :
                      Cardinality(EntriesOn(out, s, o)) =
                          IF s # o /\ EntriesOn(inn, s, o) = {} THEN 1
                          ELSE Cardinality(EntriesOn(inn, s, o))

\* C2 witness: a completed image with an annotated self-pair relation
\* next to a pair of distinct instances left without annotation.
C2_Witness ==
    /\ pc = "predcls"
    /\ \E a \in 1..Len(annos) :
          LET n == NumObjects(annos[a])
          IN  /\ Len(annos[a].relations.ids) # n * (n - 1)
              /\ \E s, o \in 0..(n - 1) :
                    /\ s # o
                    /\ EntriesOn(preddet[a].relations, s, o) = {}
                    /\ EntriesOn(annos[a].relations, s, s) # {}

\* C3: two runs of _transform_annotations + create_pred_cls_json on the
\* same raw input give the same objects and the same relation arrays.
C3_SecondRunIdentical ==
    (run = 2 /\ pc = "predcls") => annos = first


(***************************************************************************)
(* The contents of <dataset>_predcls.json for a list of raw images         *)
(* (transform(), lines 62-82), as the later stages load it.                *)
(***************************************************************************)
MaxImages == 2      \* images in the annotation list

\* The raw images below have instances with pairwise different
\* x_min + x_max, so the normalized image is the same for every
\* enumeration order of the instance set.
Normalized(rawannos) ==
    [a \in 1..Len(rawannos) |->
        TransformAnno(rawannos[a],
                      CHOOSE e \in Enumerations(InstanceSet(rawannos[a])) : TRUE)]

InitPredClsFile(rawlists) ==
    /\ raw \in rawlists
    /\ LET norm == Normalized(raw)
       IN  /\ predicates = PredicateVocabulary(norm)
           /\ objects = ObjectVocabulary(norm)
           /\ preddet = UpdateLabels(norm, predicates, objects)
    /\ annos = CreatePredCls(preddet, predicates)
    /\ run = 1
    /\ first = <<>>
    /\ NoFlow

(***************************************************************************)
(* compute_relationship_probabilities (the Probability Estimator)          *)
(***************************************************************************)
\* any(list of str): some element is truthy, i.e. a non-empty string
AnyTruthy(names) == \E r \in 1..Len(names) : names[r] # ""

\* mutant: the split of the image is not looked at
ContributesAnySplit(anno) == AnyTruthy(anno.relations.names)

\* if anno['split_id'] == 0 and any(anno['relations']['names'])
Contributes(anno) == anno.split_id = 0 /\ AnyTruthy(anno.relations.names)

\* np.unique(np.stack((subj_ids, obj_ids, ids), axis=1), axis=0): the
\* distinct rows (instance index, instance index, predicate id)
UniqueTriplets(anno) ==
    {<<anno.relations.subj_ids[r], anno.relations.obj_ids[r], anno.relations.ids[r]>> :
        r \in 1..Len(anno.relations.subj_ids)}

\* the cell ids[row[0]], ids[row[1]], row[2] of a row
CellOf(anno, row) ==
    <<anno.objects.ids[row[1] + 1], anno.objects.ids[row[2] + 1], row[3]>>

\* mutant: every row adds 1 to its cell (np.add.at)
AccumulatePerRow(pm, anno) ==
    [c \in DOMAIN pm |->
        pm[c] + Cardinality({row \in UniqueTriplets(anno) : CellOf(anno, row) = c})]

\* prob_matrix[rows of cells] += 1: the right-hand side is computed from
\* the old array and assigned, so a cell named by several rows gains 1.
Accumulate(pm, anno) ==
    LET cells == {CellOf(anno, row) : row \in UniqueTriplets(anno)}
    IN  [c \in DOMAIN pm |-> IF c \in cells THEN pm[c] + 1 ELSE pm[c]]

Cells(nobj, npred) == (0..(nobj - 1)) \X (0..(nobj - 1)) \X (0..(npred - 1))

\* np.ones((len(objects), len(objects), len(predicates)))
Ones(nobj, npred) == [c \in Cells(nobj, npred) |-> 1]

RECURSIVE SumTo(_, _)
SumTo(f, n) == IF n < 0 THEN 0 ELSE f[n] + SumTo(f, n - 1)

\* prob_matrix.sum(2)[i, j]
RowSum(pm, i, j, npred) == SumTo([k \in 0..(npred - 1) |-> pm[<<i, j, k>>]], npred - 1)

\* prob_matrix /= prob_matrix.sum(2)[:, :, None]; a quotient is kept as
\* <<numerator, denominator>> (the floating-point rounding is left out)
Normalize(pm, npred) ==
    [c \in DOMAIN pm |-> <<pm[c], RowSum(pm, c[1], c[2], npred)>>]

\* Raw images of the estimator: two cars and a road; the first car is 'on'
\* the road; the second car and the road have no true relation, which a raw
\* record can only say with the predicate '__background__'.
ProbRoad == <<<<2, 3, 0, 9>>, "road">>

ProbRawRels ==
    {[subject |-> "car", subject_box |-> <<0, 1, 0, 1>>, predicate |-> "on",
      object |-> ProbRoad[2], object_box |-> ProbRoad[1]],
     [subject |-> "car", subject_box |-> <<0, 1, 2, 3>>, predicate |-> Background,
      object |-> ProbRoad[2], object_box |-> ProbRoad[1]]}

ProbRawImages ==
    {[split_id |-> sp, relationships |-> rels] :
        sp \in {0, 1}, rels \in SeqUpTo(ProbRawRels, MaxRels)}

InitProb ==
    /\ InitPredClsFile(SeqUpTo(ProbRawImages, MaxImages))
    /\ pc = "predcls"
    /\ NoProb /\ NoMerge /\ NoNeg

\* prob_matrix = np.ones(...)
DoProbOnes ==
    /\ pc = "predcls"
    /\ prob_matrix' = Ones(Len(objects), Len(predicates))
    /\ idx' = 0
    /\ pc' = "prob_loop"
    /\ UNCHANGED <<annos, pipeVars, mergeVars, negVars, flowVars>>

\* one iteration of "for anno in annos"
DoProbImage ==
    /\ pc = "prob_loop"
    /\ idx < Len(annos)
    /\ prob_matrix' = IF Contributes(annos[idx + 1])
                      THEN Accumulate(prob_matrix, annos[idx + 1])
                      ELSE prob_matrix
    /\ idx' = idx + 1
    /\ UNCHANGED <<pc, annos, pipeVars, mergeVars, negVars, flowVars>>

\* the loop is exhausted: normalize and return
DoProbNormalize ==
    /\ pc = "prob_loop"
    /\ idx = Len(annos)
    /\ prob_matrix' = Normalize(prob_matrix, Len(predicates))
    /\ pc' = "probabilities"
    /\ UNCHANGED <<idx, annos, pipeVars, mergeVars, negVars, flowVars>>

NextProb == DoProbOnes \/ DoProbImage \/ DoProbNormalize

SpecProb == InitProb /\ [][NextProb]_vars

\* ---- properties of the probability table ----
\* the image has a relation entry of subject class i, object class j and
\* predicate k
HasClassTriplet(anno, c) ==
    \E r \in 1..Len(anno.relations.ids) :
        /\ anno.objects.ids[anno.relations.subj_ids[r] + 1] = c[1]
        /\ anno.objects.ids[anno.relations.obj_ids[r] + 1] = c[2]
        /\ anno.relations.ids[r] = c[3]

HasEntries(anno) == Len(anno.relations.names) > 0

AllBackground(anno) ==
    /\ HasEntries(anno)
    /\ \A r \in 1..Len(anno.relations.names) : anno.relations.names[r] = Background

\* 1 + the number of images among the first n that are training images with
\* at least one relation entry and contain the class triplet c
CountOf(c, n) ==
    1 + Cardinality({a \in 1..n : /\ annos[a].split_id = 0
                                  /\ HasEntries(annos[a])
                                  /\ HasClassTriplet(annos[a], c)})

\* C4: the returned cell (i, j, k) is c[i][j][k] / sum_k' c[i][j][k'] with
\* c = 1 + number of contributing training images that contain the class
\* triplet (an image adds at most 1 to a cell); every row sums to 1 and no
\* cell is 0.
C4_SmoothedFrequencies ==
    pc = "probabilities" =>
        \A c \in Cells(Len(objects), Len(predicates)) :
            LET row == [k \in 0..(Len(predicates) - 1) |-> CountOf(<<c[1], c[2], k>>, Len(annos))]
                nums == [k \in 0..(Len(predicates) - 1) |-> prob_matrix[<<c[1], c[2], k>>][1]]
            IN  /\ prob_matrix[c][1] = CountOf(c, Len(annos))
                /\ prob_matrix[c][2] = SumTo(row, Len(predicates) - 1)
                /\ prob_matrix[c][1] >= 1
                /\ SumTo(nums, Len(predicates) - 1) = prob_matrix[c][2]

\* C4 witness: a returned table for a list with a training image in which
\* one class triplet sits on two different instance pairs.
C4_Witness ==
    /\ pc = "probabilities"
    /\ \E a \in 1..Len(annos) : \E r1, r2 \in 1..Len(annos[a].relations.ids) :
          LET rel == annos[a].relations
              ids == annos[a].objects.ids
          IN  /\ annos[a].split_id = 0
              /\ rel.subj_ids[r1] # rel.subj_ids[r2]
              /\ ids[rel.subj_ids[r1] + 1] = ids[rel.subj_ids[r2] + 1]
              /\ ids[rel.obj_ids[r1] + 1] = ids[rel.obj_ids[r2] + 1]
              /\ rel.ids[r1] = rel.ids[r2]
              /\ prob_matrix[<<ids[rel.subj_ids[r1] + 1], ids[rel.obj_ids[r1] + 1],
                               rel.ids[r1]>>][1] = 2

\* C9 as stated: counts come only from training images that have at least
\* one non-background relation.
C9_OnlyImagesWithTrueRelation ==
    pc = "prob_loop" =>
        \A c \in Cells(Len(objects), Len(predicates)) :
            prob_matrix[c] =
                1 + Cardinality({a \in 1..idx :
                        /\ annos[a].split_id = 0
                        /\ ~AllBackground(annos[a])
                        /\ HasClassTriplet(annos[a], c)})

\* C9 amended: counts come only from training images that have at least
\* one relation entry, background or not; a training image whose entries
\* are all background adds 1 to the background cell of each of its class
\* pairs, and an image of another split adds nothing.
C9_ImagesWithEntriesCount ==
    pc = "prob_loop" =>
        /\ \A c \in Cells(Len(objects), Len(predicates)) : prob_matrix[c] = CountOf(c, idx)
        /\ \A a \in 1..idx :
              (annos[a].split_id = 0 /\ AllBackground(annos[a])) =>
                  \E c \in Cells(Len(objects), Len(predicates)) :
                      /\ c[3] = Len(predicates) - 1
                      /\ HasClassTriplet(annos[a], c)
                      /\ prob_matrix[c] >= 2

\* C9 witness: the loop has consumed a training image with 'on' and a
\* training image of the same classes whose entries are all background, and
\* the background cell of (car, road) stands at 2.
C9_Witness ==
    /\ pc = "prob_loop"
    /\ idx = 2
    /\ Len(predicates) = 2
    /\ annos[1].split_id = 0 /\ ~AllBackground(annos[1])
    /\ annos[2].split_id = 0 /\ AllBackground(annos[2])
    /\ prob_matrix[<<0, 1, 0>>] = 2
    /\ prob_matrix[<<0, 1, 1>>] = 2


(***************************************************************************)
(* compute_class_merging and _densify_mat (the Synonym / Merging Engine)   *)
(***************************************************************************)
MatCells(k) == (0..(k - 1)) \X (0..(k - 1))

\* np.eye(len(predicates))
Eye(k) == [c \in MatCells(k) |-> IF c[1] = c[2] THEN 1 ELSE 0]

\* np.zeros_like(mat)
ZerosLike(m) == [c \in DOMAIN m |-> 0]

\* class id of instance index i of an image
ClassOf(anno, i) == anno.objects.ids[i + 1]

\* the set of (subject class, object class) of the relation entries of the
\* images whose relation list is not empty
ClassPairs(as) ==
    UNION {{<<ClassOf(as[a], as[a].relations.subj_ids[r]),
              ClassOf(as[a], as[a].relations.obj_ids[r])>> :
                r \in 1..Len(as[a].relations.ids)} : a \in 1..Len(as)}

\* one image of the loop "Fill adjacency matrices": every two entries
\* (ind_i, ind_j) with the same (subj_id, obj_id) mark [ids[ind_i], ids[ind_j]]
FillAnno(conn, anno, k) ==
    LET rel == anno.relations
        R == 1..Len(rel.subj_ids)
        common == {ij \in R \X R :
                      /\ rel.subj_ids[ij[1]] = rel.subj_ids[ij[2]]
                      /\ rel.obj_ids[ij[1]] = rel.obj_ids[ij[2]]}
    IN  [cp \in DOMAIN conn |->
            [c \in MatCells(k) |->
                IF \E ij \in common :
                      /\ cp = <<ClassOf(anno, rel.subj_ids[ij[1]]),
                                ClassOf(anno, rel.obj_ids[ij[2]])>>
                      /\ c = <<rel.ids[ij[1]], rel.ids[ij[2]]>>
                THEN 1 ELSE conn[cp][c]]]

Min2(a, b) == IF a < b THEN a ELSE b

\* np.matmul(mat.T, mat)[i, j] = sum_k mat[k, i] * mat[k, j]
MatTMat(m, k, i, j) == SumTo([x \in 0..(k - 1) |-> m[<<x, i>>] * m[<<x, j>>]], k - 1)

\* mutant: the step adds the transpose instead of the product
DensifyStepTranspose(m, k) ==
    [c \in DOMAIN m |-> Min2(m[c] + m[<<c[2], c[1]>>], 1)]

\* mat = np.minimum(mat + np.matmul(mat.T, mat), 1)
DensifyStep(m, k) ==
    [c \in DOMAIN m |-> Min2(m[c] + MatTMat(m, k, c[1], c[2]), 1)]

\* while (mat != old_mat).any(): old_mat = np.copy(mat); mat = step(mat)
RECURSIVE DensifyLoop(_, _, _)
DensifyLoop(m, old, k) ==
    IF m = old THEN m ELSE DensifyLoop(DensifyStep(m, k), m, k)

\* mutant: the loop body runs once
DensifyMatOnce(m, k) == DensifyStep(m, k)

\* _densify_mat(mat)
DensifyMat(m, k) == DensifyLoop(m, ZerosLike(m), k)

\* mutant: the last index of the row maximum
ArgMaxLast(m, k, i) ==
    CHOOSE j \in 0..(k - 1) :
        /\ \A x \in 0..(k - 1) : m[<<i, x>>] <= m[<<i, j>>]
        /\ \A x \in (j + 1)..(k - 1) : m[<<i, x>>] < m[<<i, j>>]

\* mat.argmax(1)[i]: the first index of the maximum of row i
ArgMax(m, k, i) ==
    CHOOSE j \in 0..(k - 1) :
        /\ \A x \in 0..(k - 1) : m[<<i, x>>] <= m[<<i, j>>]
        /\ \A x \in 0..(j - 1) : m[<<i, x>>] < m[<<i, j>>]

\* mat.argmax(1).tolist()
ArgMaxRows(m, k) == [p \in 1..k |-> ArgMax(m, k, p - 1)]

MaxMergeImages == 3    \* images in the annotation list of the merging engine

\* Raw images of the merging engine: one car and one road, the car related
\* to the road by any of four predicates.
MergeRawRels ==
    {[subject |-> "car", subject_box |-> <<0, 1, 0, 1>>, predicate |-> p,
      object |-> "road", object_box |-> <<2, 3, 0, 9>>] : p \in Range(PredicateNames)}

MergeRawImages ==
    {[split_id |-> 0, relationships |-> rels] : rels \in SeqUpTo(MergeRawRels, MaxRels)}

InitMerge ==
    /\ InitPredClsFile(SeqUpTo(MergeRawImages, MaxMergeImages))
    /\ pc = "predcls"
    /\ NoProb /\ NoMerge /\ NoNeg

\* connections = {pair: np.eye(len(predicates)) for pair in pairs}
DoMergeEye ==
    /\ pc = "predcls"
    /\ connections' = [cp \in ClassPairs(annos) |-> Eye(Len(predicates))]
    /\ idx' = 0
    /\ pc' = "fill"
    /\ UNCHANGED <<annos, pipeVars, prob_matrix, key, done, mat, old_mat, iters, negVars, flowVars>>

\* one iteration of the loop that fills the adjacency matrices
DoMergeFill ==
    /\ pc = "fill"
    /\ idx < Len(annos)
    /\ connections' = FillAnno(connections, annos[idx + 1], Len(predicates))
    /\ idx' = idx + 1
    /\ UNCHANGED <<pc, annos, pipeVars, prob_matrix, key, done, mat, old_mat, iters, negVars, flowVars>>

\* the fill loop is exhausted
DoMergeFilled ==
    /\ pc = "fill"
    /\ idx = Len(annos)
    /\ pc' = "densify"
    /\ UNCHANGED <<annos, pipeVars, probVars, mergeVars, negVars, flowVars>>

\* self._densify_mat(mat) for the next key of connections.items()
DoDensify ==
    /\ pc = "densify"
    /\ \E cp \in DOMAIN connections \ done :
          /\ key' = cp
          /\ mat' = DensifyMat(connections[cp], Len(predicates))
    /\ pc' = "argmax"
    /\ UNCHANGED <<annos, pipeVars, probVars, connections, done, old_mat, iters, negVars, flowVars>>

\* connections[key] = (the closed matrix).argmax(1).tolist()
DoArgMax ==
    /\ pc = "argmax"
    /\ connections' = [connections EXCEPT ![key] = ArgMaxRows(mat, Len(predicates))]
    /\ done' = done \cup {key}
    /\ pc' = "densify"
    /\ UNCHANGED <<annos, pipeVars, probVars, key, mat, old_mat, iters, negVars, flowVars>>

\* return connections
DoMergeReturn ==
    /\ pc = "densify"
    /\ done = DOMAIN connections
    /\ pc' = "merged"
    /\ UNCHANGED <<annos, pipeVars, probVars, mergeVars, negVars, flowVars>>

NextMerge ==
    \/ DoMergeEye
    \/ DoMergeFill
    \/ DoMergeFilled
    \/ DoDensify
    \/ DoArgMax
    \/ DoMergeReturn

SpecMerge == InitMerge /\ [][NextMerge]_vars

\* ---- properties of the closure and of the canonical mapping ----
PredIds == 0..(Len(predicates) - 1)

\* predicates linked to the set S by a marked cell, in either direction
Linked(m, S) ==
    S \cup {q \in PredIds : \E p \in S : m[<<p, q>>] = 1 \/ m[<<q, p>>] = 1}

\* the predicates joined to S by a chain of marked cells
RECURSIVE Component(_, _)
Component(m, S) == IF Linked(m, S) = S THEN S ELSE Component(m, Linked(m, S))

\* C5: the matrix returned by _densify_mat for an adjacency matrix built by
\* compute_class_merging is binary, reflexive, symmetric and transitive,
\* contains the input, and is the smallest such matrix: it joins two
\* predicates only if a chain of marked cells of the input joins them.
C5_ClosureIsEquivalence ==
    pc = "argmax" =>
        /\ \A c \in DOMAIN mat : mat[c] \in {0, 1}
        /\ \A p \in PredIds : mat[<<p, p>>] = 1
        /\ \A p, q \in PredIds : mat[<<p, q>>] = 1 => mat[<<q, p>>] = 1
        /\ \A p, q, r \in PredIds :
              (mat[<<p, q>>] = 1 /\ mat[<<q, r>>] = 1) => mat[<<p, r>>] = 1
        /\ \A c \in DOMAIN mat : connections[key][c] = 1 => mat[c] = 1
        /\ \A p, q \in PredIds :
              mat[<<p, q>>] = 1 => q \in Component(connections[key], {p})

\* C5 witness: a closure that had to join two predicates never annotated on
\* one instance pair, and needed more than one pass to do it.
C5_Witness ==
    /\ pc = "argmax"
    /\ mat # connections[key]
    /\ mat # DensifyStep(connections[key], Len(predicates))

\* C6: the canonical id m[p] is a predicate id, m[m[p]] = m[p], and m[p] is
\* the lowest id of the class of p in the closed matrix, so m[p] <= p.
C6_CanonicalMapping ==
    /\ pc \in {"densify", "argmax", "merged"} =>
          \A cp \in done : \A p \in PredIds :
              /\ connections[cp][p + 1] \in PredIds
              /\ connections[cp][connections[cp][p + 1] + 1] = connections[cp][p + 1]
              /\ connections[cp][p + 1] <= p
    /\ (pc = "densify" /\ key \in done) =>
          \A p \in PredIds :
              /\ mat[<<p, connections[key][p + 1]>>] = 1
              /\ \A q \in PredIds : mat[<<p, q>>] = 1 => connections[key][p + 1] <= q

\* C6 witness: a mapping that sends three predicates to one canonical id.
C6_Witness ==
    /\ pc = "densify"
    /\ key \in done
    /\ \E p, q, r \in PredIds :
          /\ p < q /\ q < r
          /\ connections[key][q + 1] = p
          /\ connections[key][r + 1] = p


(***************************************************************************)
(* compute_area, compute_overlap and save_negative_json (Negative Miner)   *)
(***************************************************************************)
Max2(a, b) == IF a > b THEN a ELSE b

\* compute_area(bbox), bbox = [y_min, y_max, x_min, x_max]
ComputeArea(bbox) == Max2(0, bbox[4] - bbox[3] + 1) * Max2(0, bbox[2] - bbox[1] + 1)

IntersectionBbox(bbox0, bbox1) ==
    <<Max2(bbox0[1], bbox1[1]), Min2(bbox0[2], bbox1[2]),
      Max2(bbox0[3], bbox1[3]), Min2(bbox0[4], bbox1[4])>>

\* compute_overlap(bbox0, bbox1): the quotient intersection_area /
\* union_area; the division raises ZeroDivisionError when union_area is 0.
ComputeOverlap(bbox0, bbox1) ==
    LET intersection_area == ComputeArea(IntersectionBbox(bbox0, bbox1))
        union_area == ComputeArea(bbox0) + ComputeArea(bbox1) - intersection_area
    IN  [raises |-> union_area = 0, num |-> intersection_area, den |-> union_area]

\* mutant: overlap <= 0.9
AtMost09(ov) == 10 * ov.num <= 9 * ov.den

\* overlap < 0.9 for a quotient num / den of small integers, den > 0: the
\* double nearest to num / den is below the double 0.9 exactly when
\* 10 * num < 9 * den
Below09(ov) == 10 * ov.num < 9 * ov.den

SubjBox(anno, r) == anno.objects.boxes[anno.relations.subj_ids[r] + 1]
ObjBox(anno, r) == anno.objects.boxes[anno.relations.obj_ids[r] + 1]

\* rule 1, entry n against entry r: the conjuncts of rule_applies in order
\* ("and" stops at the first false one)
Rule1Calls(anno, n, r) == anno.relations.subj_ids[r] # anno.relations.subj_ids[n]

Rule1Applies(anno, n, r) ==
    /\ anno.relations.subj_ids[r] # anno.relations.subj_ids[n]
    /\ Below09(ComputeOverlap(SubjBox(anno, r), SubjBox(anno, n)))
    /\ anno.relations.names[r] # anno.relations.names[n]
    /\ anno.relations.obj_ids[r] = anno.relations.obj_ids[n]

\* rule 2: compute_overlap is the last conjunct
Rule2Calls(anno, n, r) ==
    /\ anno.relations.subj_ids[r] = anno.relations.subj_ids[n]
    /\ anno.relations.names[r] # anno.relations.names[n]
    /\ anno.relations.obj_ids[r] # anno.relations.obj_ids[n]

Rule2Applies(anno, n, r) ==
    /\ Rule2Calls(anno, n, r)
    /\ Below09(ComputeOverlap(ObjBox(anno, r), ObjBox(anno, n)))

\* if name in self.r1_preds: ... elif name in self.r2_preds: ...
UsesRule(name, r1, r2, rule) ==
    IF rule = 1 THEN name \in r1 ELSE name \notin r1 /\ name \in r2

\* entry n makes neg_ids[r].append(relations['ids'][n])
Appends(anno, r1, r2, n, r) ==
    \/ UsesRule(anno.relations.names[n], r1, r2, 1) /\ Rule1Applies(anno, n, r)
    \/ UsesRule(anno.relations.names[n], r1, r2, 2) /\ Rule2Applies(anno, n, r)

\* some call of compute_overlap made for the image divides by zero
NegRaises(anno, r1, r2) ==
    \E n, r \in 1..Len(anno.relations.names) :
        \/ /\ UsesRule(anno.relations.names[n], r1, r2, 1)
           /\ Rule1Calls(anno, n, r)
           /\ ComputeOverlap(SubjBox(anno, r), SubjBox(anno, n)).raises
        \/ /\ UsesRule(anno.relations.names[n], r1, r2, 2)
           /\ Rule2Calls(anno, n, r)
           /\ ComputeOverlap(ObjBox(anno, r), ObjBox(anno, n)).raises

\* neg_ids of one image: for every entry r the ids of the entries n, in the
\* order of the outer loop, that append to it
NegIds(anno, r1, r2) ==
    LET R == Len(anno.relations.names)
    IN  [r \in 1..R |->
            LET from == SelectSeq([n \in 1..R |-> n],
                                  LAMBDA n : Appends(anno, r1, r2, n, r))
            IN  [k \in 1..Len(from) |-> anno.relations.ids[from[k]]]]

\* Instances of the miner's images: two persons whose boxes overlap by
\* exactly 0.9, and a horse and a dog with boxes of height 0 (area 0).
NegInstances ==
    { <<<<0, 9, 0, 9>>, "person">>, <<<<0, 9, 0, 8>>, "person">>,
      <<<<1, 0, 0, 5>>, "horse">>, <<<<3, 2, 1, 5>>, "dog">> }

\* relationships between two different instances
NegRawImages ==
    {img \in RawImages(NegInstances, {"near", "on"}, {0}, MaxRels) :
        \A rel \in Range(img.relationships) :
            <<rel.subject_box, rel.subject>> # <<rel.object_box, rel.object>>}

InitNeg ==
    /\ InitPredClsFile({<<img>> : img \in NegRawImages})
    /\ pc = "predcls"
    /\ NoProb /\ NoMerge
    /\ negatives = <<>>
    /\ r1_preds \in {{}, {"on"}}
    /\ r2_preds \in {{}, {"on"}}

\* one iteration of "for anno in annos" of save_negative_json
DoNegImage ==
    /\ pc = "predcls"
    /\ idx < Len(annos)
    /\ IF NegRaises(annos[idx + 1], r1_preds, r2_preds)
       THEN /\ pc' = "ZeroDivisionError"
            /\ UNCHANGED <<idx, negatives>>
       ELSE /\ negatives' = Append(negatives, NegIds(annos[idx + 1], r1_preds, r2_preds))
            /\ idx' = idx + 1
            /\ pc' = pc
    /\ UNCHANGED <<annos, pipeVars, prob_matrix, mergeVars, r1_preds, r2_preds, flowVars>>

\* json.dump(negatives, fid)
DoNegDump ==
    /\ pc = "predcls"
    /\ idx = Len(annos)
    /\ pc' = "negatives"
    /\ UNCHANGED <<annos, pipeVars, probVars, mergeVars, negVars, flowVars>>

NextNeg == DoNegImage \/ DoNegDump

SpecNeg == InitNeg /\ [][NextNeg]_vars

\* ---- properties of the negative lists ----
Occurrences(s, x) == Cardinality({k \in 1..Len(s) : s[k] = x})

Defined(bbox0, bbox1) == ~ComputeOverlap(bbox0, bbox1).raises

\* the overlap ratio of two boxes is below 0.9 (a ratio exists when the
\* union of the boxes has positive area)
RatioBelow09(bbox0, bbox1) ==
    LET inter == ComputeArea(IntersectionBbox(bbox0, bbox1))
    IN  /\ Defined(bbox0, bbox1)
        /\ 10 * inter < 9 * (ComputeArea(bbox0) + ComputeArea(bbox1) - inter)

\* C7: for an entry (S, P, O) with P in r1_preds and another entry
\* (S2, P2, O2) with O2 = O and P2 # P, the id of P is appended to the
\* other entry's negative list once for (S, P, O) when the overlap of the
\* boxes of S2 and S is below 0.9, and not for it when the overlap is 0.9
\* or more.
C7_RuleOne ==
    pc = "negatives" =>
        \A a \in 1..Len(annos) : \A r \in 1..Len(annos[a].relations.names) :
            \A P \in r1_preds :
                LET rel == annos[a].relations
                    sources == {n \in 1..Len(rel.names) :
                                   /\ rel.names[n] = P
                                   /\ rel.obj_ids[n] = rel.obj_ids[r]}
                IN  (rel.names[r] # P /\ P \in Range(predicates)) =>
                        Occurrences(negatives[a][r], IndexOf(predicates, P) - 1) =
                            Cardinality({n \in sources :
                                RatioBelow09(SubjBox(annos[a], r), SubjBox(annos[a], n))})

\* C7 witness: 'on' in r1_preds; an entry on the same object whose subject
\* is apart from the subject of 'on' got the id, another entry on the same
\* object, whose subject overlaps that subject by exactly 0.9, got nothing.
C7_Witness ==
    /\ pc = "negatives"
    /\ "on" \in r1_preds
    /\ \E a \in 1..Len(annos) : \E n, r, r2 \in 1..Len(annos[a].relations.names) :
          LET rel == annos[a].relations
          IN  /\ rel.names[n] = "on"
              /\ rel.obj_ids[r] = rel.obj_ids[n] /\ rel.names[r] # "on"
              /\ rel.obj_ids[r2] = rel.obj_ids[n] /\ rel.names[r2] # "on"
              /\ rel.subj_ids[r2] # rel.subj_ids[n]
              /\ Defined(SubjBox(annos[a], r2), SubjBox(annos[a], n))
              /\ ~RatioBelow09(SubjBox(annos[a], r2), SubjBox(annos[a], n))
              /\ negatives[a][r] = <<rel.ids[n]>>
              /\ negatives[a][r2] = <<>>

\* C8: compute_overlap gives 0 for two boxes whose union has area 0, and
\* save_negative_json completes for every image.
C8_OverlapTotal ==
    /\ pc # "ZeroDivisionError"
    /\ pc = "negatives" =>
          \A a \in 1..Len(annos) : \A b0, b1 \in Range(annos[a].objects.boxes) :
              (ComputeArea(b0) = 0 /\ ComputeArea(b1) = 0) =>
                  LET ov == ComputeOverlap(b0, b1) IN ~ov.raises /\ ov.num = 0

\* C10: for an entry (S, P, O) with P in r2_preds, in r1_preds or not, and
\* another entry with subject S, a predicate P2 # P and an object whose box
\* overlaps that of O by less than 0.9, the id of P is appended to the
\* other entry's negative list.
C10_RuleTwo ==
    pc = "negatives" =>
        \A a \in 1..Len(annos) : \A r \in 1..Len(annos[a].relations.names) :
            \A P \in r2_preds :
                LET rel == annos[a].relations
                    sources == {n \in 1..Len(rel.names) :
                                   /\ rel.names[n] = P
                                   /\ rel.subj_ids[n] = rel.subj_ids[r]
                                   /\ RatioBelow09(ObjBox(annos[a], r), ObjBox(annos[a], n))}
                IN  (rel.names[r] # P /\ P \in Range(predicates)) =>
                        Occurrences(negatives[a][r], IndexOf(predicates, P) - 1) >=
                            Cardinality(sources)

(***************************************************************************)
(* _densify_mat as a loop: one action per run of the loop body             *)
(***************************************************************************)
MaxDim == 3    \* side of the largest matrix handed to _densify_mat

\* mat.shape[0] of a square matrix
Dim(m) ==
    CHOOSE k \in 0..Cardinality(DOMAIN m) : k * k = Cardinality(DOMAIN m)

\* the k x k binary matrices that contain the identity (every matrix
\* compute_class_merging fills starts as np.eye and only gains ones)
BinaryWithIdentity(k) ==
    {m \in [MatCells(k) -> {0, 1}] : \A i \in 0..(k - 1) : m[<<i, i>>] = 1}

\* old_mat = np.zeros(mat.shape)
InitDensify ==
    /\ mat \in UNION {BinaryWithIdentity(k) : k \in 0..MaxDim}
    /\ old_mat = ZerosLike(mat)
    /\ iters = 0
    /\ pc = "while"
    /\ annos = <<>>
    /\ connections = <<>> /\ key = <<>> /\ done = {}
    /\ NoPipe /\ NoProb /\ NoNeg /\ NoFlow

\* while (old_mat != mat).any(): old_mat = np.copy(mat); mat = step(mat)
DoDensifyBody ==
    /\ pc = "while"
    /\ old_mat # mat
    /\ old_mat' = mat
    /\ mat' = DensifyStep(mat, Dim(mat))
    /\ iters' = iters + 1
    /\ UNCHANGED <<pc, annos, pipeVars, probVars, connections, key, done, negVars, flowVars>>

\* the loop condition is false: return mat
DoDensifyReturn ==
    /\ pc = "while"
    /\ old_mat = mat
    /\ pc' = "returned"
    /\ UNCHANGED <<annos, pipeVars, probVars, mergeVars, negVars, flowVars>>

\* _densify_mat applied to its own result; old_mat keeps the first result
DoDensifyReapply ==
    /\ pc = "returned"
    /\ mat' = DensifyMat(mat, Dim(mat))
    /\ pc' = "reapplied"
    /\ UNCHANGED <<annos, pipeVars, probVars, connections, key, done, old_mat,
                   iters, negVars, flowVars>>

NextDensify ==
    \/ DoDensifyBody
    \/ DoDensifyReturn
    \/ DoDensifyReapply

\* the loop is sequential code: an enabled step is eventually taken
SpecDensify == InitDensify /\ [][NextDensify]_vars /\ WF_vars(NextDensify)

\* min(m + transpose(m).m, 1) = m, cell by cell
IsFixedPoint(m) ==
    LET k == Dim(m)
    IN  \A i, j \in 0..(k - 1) :
            /\ m[<<i, j>>] \in {0, 1}
            /\ (\E x \in 0..(k - 1) : m[<<x, i>>] = 1 /\ m[<<x, j>>] = 1)
                  => m[<<i, j>>] = 1

\* C11: for every k x k binary matrix that contains the identity the loop of
\* _densify_mat terminates; no entry decreases from one iteration to the
\* next, the loop body runs at most k times, the returned matrix is a fixed
\* point of the step, and _densify_mat of the result is the result.
C11_DensifyTerminates ==
    /\ [](iters > 0 => \A c \in DOMAIN mat : old_mat[c] <= mat[c])
    /\ [](iters <= Dim(mat))
    /\ [](pc \in {"returned", "reapplied"} => IsFixedPoint(mat))
    /\ [](pc = "reapplied" => mat = old_mat)
    /\ <>(pc \in {"returned", "reapplied"})

\* a 3 x 3 matrix whose closure took the full three runs of the loop body
C11_Witness ==
    /\ pc = "reapplied"
    /\ Dim(mat) = 3
    /\ iters = 3

(***************************************************************************)
(* The negative miner on images whose pairs carry several predicates       *)
(***************************************************************************)
MaxNegRels == 3    \* relationships of an image with multi-labelled pairs

\* A person, a horse and a dog with disjoint boxes of area 100 (overlap 0)
\* and three different sort keys x_min + x_max.
MultiInstances ==
    { <<<<0, 9, 0, 9>>, "person">>, <<<<0, 9, 20, 29>>, "horse">>,
      <<<<20, 29, 1, 10>>, "dog">> }

\* the person or the horse related to the dog, or the horse to the person
MultiRawImages ==
    {img \in RawImages(MultiInstances, {"near", "on"}, {0}, MaxNegRels) :
        \A rel \in Range(img.relationships) :
            /\ rel.subject \in {"person", "horse"}
            /\ rel.object \in {"dog", "person"}
            /\ rel.subject # rel.object}

InitNegMulti ==
    /\ InitPredClsFile({<<img>> : img \in MultiRawImages})
    /\ pc = "predcls"
    /\ NoProb /\ NoMerge
    /\ negatives = <<>>
    /\ r1_preds \in {{}, {"on"}}
    /\ r2_preds \in {{}, {"on"}}

SpecNegMulti == InitNegMulti /\ [][NextNeg]_vars

\* C12: no id in the negative list of relation entry r is the predicate id
\* of an entry annotated on the same (subject index, object index) pair as
\* r: a true label of a pair is never one of its confirmed negatives.
C12_NoTrueLabelAsNegative ==
    \A a \in 1..Len(negatives) :
        LET rel == annos[a].relations
        IN  \A r, q \in 1..Len(rel.ids) :
                (rel.subj_ids[r] = rel.subj_ids[q] /\ rel.obj_ids[r] = rel.obj_ids[q])
                    => \A i \in 1..Len(negatives[a][r]) :
                          negatives[a][r][i] # rel.ids[q]

(***************************************************************************)
(* The control flow of transform(): which artifact files exist, which of  *)
(* its local names are bound, which methods it has called                  *)
(***************************************************************************)
Artifacts ==
    {"conceptnet", "preddet", "predicate", "object", "word2vec", "predcls",
     "probability", "merged", "negative"}

\* jsons: the five files whose absence triggers the first block
Jsons == {"conceptnet", "preddet", "predicate", "object", "word2vec"}

Datasets == {"VRD", "VG80K"}

FlowIdle == UNCHANGED <<annos, pipeVars, probVars, mergeVars, negVars, dataset>>

\* reading a local name of transform() that no assignment has bound
Raise(error) == pc' = error /\ UNCHANGED <<exists, bound, calls>>

InitTransform ==
    /\ dataset \in Datasets
    /\ exists \in SUBSET Artifacts
    /\ bound = {}
    /\ calls = <<>>
    /\ pc = "transform"
    /\ annos = <<>>
    /\ NoPipe /\ NoProb /\ NoMerge /\ NoNeg

\* if not all(os.path.exists(anno) for anno in jsons):
FlowCheckJsons ==
    /\ pc = "transform"
    /\ pc' = IF ~(Jsons \subseteq exists) THEN "create" ELSE "dataset"
    /\ UNCHANGED <<exists, bound, calls>>
    /\ FlowIdle

\* download_annotations(); annos = create_relationship_json();
\* annos = _transform_annotations(annos)
FlowCreateAnnotations ==
    /\ pc = "create"
    /\ calls' = calls \o <<"download_annotations", "create_relationship_json",
                           "_transform_annotations">>
    /\ bound' = bound \cup {"annos"}
    /\ pc' = "save_predicates_objects"
    /\ UNCHANGED exists
    /\ FlowIdle

\* predicates, objects = self.save_predicates_objects(annos)
FlowSavePredicatesObjects ==
    /\ pc = "save_predicates_objects"
    /\ IF "annos" \in bound
       THEN /\ calls' = Append(calls, "save_predicates_objects")
            /\ exists' = exists \cup {"predicate", "object"}
            /\ bound' = bound \cup {"predicates", "objects"}
            /\ pc' = "vectors"
       ELSE Raise("UnboundLocalError")
    /\ FlowIdle

\* save_word2vec_vectors and save_conceptnet_vectors, each if its file is
\* missing
FlowSaveVectors ==
    /\ pc = "vectors"
    /\ LET missing == {"word2vec", "conceptnet"} \ exists
       IN  IF missing = {} \/ {"predicates", "objects"} \subseteq bound
           THEN /\ calls' = calls
                      \o (IF "word2vec" \in missing
                          THEN <<"save_word2vec_vectors">> ELSE <<>>)
                      \o (IF "conceptnet" \in missing
                          THEN <<"save_conceptnet_vectors">> ELSE <<>>)
                /\ exists' = exists \cup missing
                /\ pc' = "update_labels"
                /\ UNCHANGED bound
           ELSE Raise("UnboundLocalError")
    /\ FlowIdle

\* annos = self.update_labels(annos, predicates, objects); dump to preddet
FlowUpdateLabels ==
    /\ pc = "update_labels"
    /\ IF {"annos", "predicates", "objects"} \subseteq bound
       THEN /\ calls' = Append(calls, "update_labels")
            /\ exists' = exists \cup {"preddet"}
            /\ pc' = "dataset"
            /\ UNCHANGED bound
       ELSE Raise("UnboundLocalError")
    /\ FlowIdle

\* if self._dataset not in {'VG80K', 'VrR-VG'}:
FlowCheckDataset ==
    /\ pc = "dataset"
    /\ pc' = IF dataset \notin {"VG80K", "VrR-VG"} THEN "load_preddet" ELSE "done"
    /\ UNCHANGED <<exists, bound, calls>>
    /\ FlowIdle

\* with open(self._preddet_json) as fid: annos = json.load(fid)
FlowLoadPreddet ==
    /\ pc = "load_preddet"
    /\ IF "preddet" \in exists
       THEN /\ bound' = bound \cup {"annos"}
            /\ pc' = "predcls"
            /\ UNCHANGED <<exists, calls>>
       ELSE Raise("FileNotFoundError")
    /\ FlowIdle

\* if not os.path.exists(self._predcls_json):
\*     self.create_pred_cls_json(annos, predicates)
FlowCreatePredClsJson ==
    /\ pc = "predcls"
    /\ IF "predcls" \in exists
       THEN /\ pc' = "load_vocabulary"
            /\ UNCHANGED <<exists, bound, calls>>
       ELSE IF {"annos", "predicates"} \subseteq bound
            THEN /\ calls' = Append(calls, "create_pred_cls_json")
                 /\ exists' = exists \cup {"predcls"}
                 /\ pc' = "load_vocabulary"
                 /\ UNCHANGED bound
            ELSE Raise("UnboundLocalError")
    /\ FlowIdle

\* predicates = json.load(predicate file); objects = json.load(object file)
FlowLoadVocabulary ==
    /\ pc = "load_vocabulary"
    /\ IF {"predicate", "object"} \subseteq exists
       THEN /\ bound' = bound \cup {"predicates", "objects"}
            /\ pc' = "probability"
            /\ UNCHANGED <<exists, calls>>
       ELSE Raise("FileNotFoundError")
    /\ FlowIdle

\* if not os.path.exists(self._probability_json): ...
FlowProbabilities ==
    /\ pc = "probability"
    /\ IF "probability" \in exists
       THEN /\ pc' = "merged"
            /\ UNCHANGED <<exists, bound, calls>>
       ELSE IF "predcls" \notin exists
            THEN Raise("FileNotFoundError")
            ELSE IF {"predicates", "objects"} \subseteq bound
                 THEN /\ calls' = Append(calls, "compute_relationship_probabilities")
                      /\ bound' = bound \cup {"annos", "prob_matrix"}
                      /\ exists' = exists \cup {"probability"}
                      /\ pc' = "merged"
                 ELSE Raise("UnboundLocalError")
    /\ FlowIdle

\* if not os.path.exists(self._merged_json): ...
FlowMerged ==
    /\ pc = "merged"
    /\ IF "merged" \in exists
       THEN /\ pc' = "negatives"
            /\ UNCHANGED <<exists, bound, calls>>
       ELSE IF ~({"predcls", "preddet"} \subseteq exists)
            THEN Raise("FileNotFoundError")
            ELSE IF "predicates" \in bound
                 THEN /\ calls' = calls \o <<"compute_class_merging",
                                             "update_annos_with_syns",
                                             "update_annos_with_syns">>
                      /\ bound' = bound \cup {"annos", "connections"}
                      /\ exists' = exists \cup {"merged"}
                      /\ pc' = "negatives"
                 ELSE Raise("UnboundLocalError")
    /\ FlowIdle

\* if not os.path.exists(self._negative_json): self.save_negative_json()
FlowNegatives ==
    /\ pc = "negatives"
    /\ IF "negative" \in exists
       THEN /\ pc' = "done"
            /\ UNCHANGED <<exists, bound, calls>>
       ELSE IF "predcls" \notin exists
            THEN Raise("FileNotFoundError")
            ELSE /\ calls' = Append(calls, "save_negative_json")
                 /\ exists' = exists \cup {"negative"}
                 /\ pc' = "done"
                 /\ UNCHANGED bound
    /\ FlowIdle

NextTransform ==
    \/ FlowCheckJsons
    \/ FlowCreateAnnotations
    \/ FlowSavePredicatesObjects
    \/ FlowSaveVectors
    \/ FlowUpdateLabels
    \/ FlowCheckDataset
    \/ FlowLoadPreddet
    \/ FlowCreatePredClsJson
    \/ FlowLoadVocabulary
    \/ FlowProbabilities
    \/ FlowMerged
    \/ FlowNegatives

SpecTransform == InitTransform /\ [][NextTransform]_vars

Called(method) == \E i \in 1..Len(calls) : calls[i] = method

\* C13: for every combination of artifact files that exist on entry,
\* transform() never reads the vocabulary before it is bound: the predicate
\* vocabulary is built or loaded before create_pred_cls_json is called with
\* it, and update_labels runs only after save_predicates_objects.
C13_VocabularyBoundBeforeUse ==
    /\ pc # "UnboundLocalError"
    /\ Called("create_pred_cls_json") => "predicates" \in bound
    /\ Called("update_labels") => Called("save_predicates_objects")

====
